---- MODULE Spec2Model ----
(***************************************************************************)
(* Function-name resolution of pkg/sql/parser/function_name.go:            *)
(* UnresolvedName.normalizeFunctionName, UnresolvedName.ResolveFunction    *)
(* and the reference cell ResolvableFunctionReference with its Resolve     *)
(* method.                                                                 *)
(*                                                                         *)
(* A Go string is a sequence of one-character strings, so that             *)
(* strings.ToLower and the concatenation prefix + "." + name are computed  *)
(* and not looked up.  A *FunctionDefinition is the record [Name |-> key]; *)
(* the nil pointer is NilDef.  An error value is the record of its message *)
(* and the name it was formatted with; the nil error is NoErr.             *)
(***************************************************************************)
EXTENDS Integers, Sequences, FiniteSets, TLC

VARIABLES
    funDefs,        \* the registry: map[string]*FunctionDefinition
    fn,             \* the cell: fn.FunctionReference of one ResolvableFunctionReference
    built,          \* how the cell was constructed: "parsed" or "wrapped"
    unresolved,     \* the UnresolvedName the parser put in the cell (<<>> if wrapped)
    searchPath,     \* argument of the latest Resolve call
    ret,            \* what the latest Resolve call returned: [def, err]
    norm,           \* the functionName/err pair of the latest normalizeFunctionName
    lookups,        \* the registry keys the latest Resolve call indexed funDefs with
    calls,          \* number of Resolve calls made on the cell
    resolverCalls,  \* number of those calls that invoked ResolveFunction
    resolverOk,     \* number of ResolveFunction invocations that returned no error
    wrap,           \* the wrapFunction call that built the cell, if one did
    cells,          \* concurrent compilations: the two words of each cell's interface value
    threads         \* concurrent compilations: each goroutine's place in its Resolve call

vars == <<funDefs, fn, built, unresolved, searchPath, ret, norm, lookups,
          calls, resolverCalls, resolverOk, wrap, cells, threads>>

----------------------------------------------------------------------------
(* Bounds *)

MaxParts == 3       \* longest UnresolvedName
MaxPath == 2        \* longest SearchPath
MaxCalls == 2       \* Resolve calls made on the cell
MaxThreadPath == 1  \* longest SearchPath of a concurrent compilation

----------------------------------------------------------------------------
(* Strings *)

Dot == <<".">>

\* the identifiers the parser produces as Name parts
Idents == { <<"f">>, <<"F">>, <<"p">>, <<"P">> }

\* the namespaces a session puts in its search path
Namespaces == { <<"p">>, <<"q">>, <<"P">> }

\* the keys setupBuiltins may register
KeyUniverse == { <<"f">>, <<"F">>, <<"p", ".", "f">>, <<"q", ".", "f">> }

ToLowerChar(c) ==
    CASE c = "F" -> "f"
      [] c = "P" -> "p"
      [] c = "Q" -> "q"
      [] OTHER -> c

\* strings.ToLower left out
ToLowerSkipped(s) == s

ToLower(s) == [i \in 1..Len(s) |-> ToLowerChar(s[i])]

----------------------------------------------------------------------------
(* Values *)

NamePart(s) == [kind |-> "Name", s |-> s]
ArraySubscript == [kind |-> "ArraySubscript", s |-> <<>>]

Parts == { NamePart(s) : s \in Idents } \cup { ArraySubscript }

SeqsUpTo(S, k) == UNION { [1..m -> S] : m \in 0..k }

UnresolvedNames == SeqsUpTo(Parts, MaxParts)
\* the search paths tried: every namespace listed at most once
SearchPaths ==
    { s \in SeqsUpTo(Namespaces, MaxPath) :
        \A i, j \in 1..Len(s) : i # j => s[i] # s[j] }

FunctionDefinition(name) == [Name |-> name]
NilDef == [Name |-> <<>>]

NoErr == [msg |-> "", n |-> <<>>]
InvalidNameError(n) == [msg |-> "invalid function name: %s", n |-> n]
UnknownFunctionError(n) == [msg |-> "unknown function: %s()", n |-> n]

\* the zero value functionName{}
ZeroFunctionName == [prefixName |-> <<>>, functionName |-> <<>>, selector |-> <<>>]

Unresolved(n) == [kind |-> "UnresolvedName", name |-> n, def |-> NilDef]
Resolved(d) == [kind |-> "FunctionDefinition", name |-> <<>>, def |-> d]

\* the nil interface value: no cell content
NoCell == [kind |-> "nil", name |-> <<>>, def |-> NilDef]

----------------------------------------------------------------------------
(* normalizeFunctionName *)

\* n[:i] and n[i:] of Go, i counted from 0
SliceTo(n, i) == SubSeq(n, 1, i)
SliceFrom(n, i) == SubSeq(n, i + 1, Len(n))

Min(S) == CHOOSE x \in S : \A y \in S : x <= y

\* The structural rules of a table reference: an optional one-level
\* qualifier and a bare name, every part a plain identifier.
normalizeTableNameAsValue(n) ==
    IF Len(n) \in {1, 2} /\ \A j \in 1..Len(n) : n[j].kind = "Name"
    THEN [ok |-> TRUE,
          DatabaseName |-> IF Len(n) = 2 THEN n[1].s ELSE <<>>,
          TableName |-> n[Len(n)].s]
    ELSE [ok |-> FALSE, DatabaseName |-> <<>>, TableName |-> <<>>]

\* the index left at len(n) - 1 when no subscript is found
firstSubscriptShort(n) ==
    LET S == { j \in 0..(Len(n) - 1) : n[j + 1].kind = "ArraySubscript" }
    IN  IF S = {} THEN Len(n) - 1 ELSE Min(S)

\* the index i after the loop "Find the first array subscript, if any"
firstSubscript(n) ==
    LET S == { j \in 0..(Len(n) - 1) : n[j + 1].kind = "ArraySubscript" }
    IN  IF S = {} THEN Len(n) ELSE Min(S)

normalizeFunctionName(n) ==
    IF Len(n) = 0
    THEN [fn |-> ZeroFunctionName, err |-> InvalidNameError(n)]
    ELSE LET i == firstSubscript(n) IN
         IF i = 0
         THEN [fn |-> ZeroFunctionName, err |-> InvalidNameError(n)]
         ELSE LET tn == normalizeTableNameAsValue(SliceTo(n, i)) IN
              IF ~tn.ok
              THEN [fn |-> ZeroFunctionName, err |-> InvalidNameError(n)]
              ELSE [fn |-> [prefixName |-> tn.DatabaseName,
                            functionName |-> tn.TableName,
                            selector |-> SliceFrom(n, i)],
                    err |-> NoErr]

function(f) == f.functionName
prefix(f) == f.prefixName

----------------------------------------------------------------------------
(* ResolveFunction *)

\* the selector check dropped
hasSelectorIgnored(f) == FALSE

\* "if len(fn.selector) > 0"
hasSelector(f) == Len(f.selector) > 0

\* the fast path without its prefix test
fastPathAnyPrefix(f, defs) == function(f) \in DOMAIN defs

\* the fast path with its prefix test inverted
fastPathInverted(f, defs) == function(f) \in DOMAIN defs /\ prefix(f) # <<>>

\* "if d, ok := funDefs[fn.function()]; ok && fn.prefix() == """
fastPath(f, defs) == function(f) \in DOMAIN defs /\ prefix(f) = <<>>

\* fullName := smallName; if prefix != "" { fullName = prefix + "." + smallName }
fullName(pfx, smallName) ==
    IF pfx # <<>> THEN pfx \o Dot \o smallName ELSE smallName

\* the search path tried for qualified names too
searchesPathAlways(pfx) == TRUE

\* "if prefix == """: the search path is tried
searchesPath(pfx) == pfx = <<>>

\* the loop without its break: the last matching entry wins
RECURSIVE searchLoopNoBreak(_, _, _, _)
searchLoopNoBreak(path, smallName, defs, k) ==
    IF k > Len(path)
    THEN [found |-> FALSE, def |-> NilDef, keys |-> <<>>]
    ELSE LET key == path[k] \o Dot \o smallName
             rest == searchLoopNoBreak(path, smallName, defs, k + 1)
         IN  IF key \in DOMAIN defs /\ ~rest.found
             THEN [found |-> TRUE, def |-> defs[key], keys |-> <<key>> \o rest.keys]
             ELSE [rest EXCEPT !.keys = <<key>> \o @]

\* the loop giving up after the entry it started at
searchLoopFirstOnly(path, smallName, defs, k) ==
    IF k > Len(path)
    THEN [found |-> FALSE, def |-> NilDef, keys |-> <<>>]
    ELSE LET key == path[k] \o Dot \o smallName IN
         IF key \in DOMAIN defs
         THEN [found |-> TRUE, def |-> defs[key], keys |-> <<key>>]
         ELSE [found |-> FALSE, def |-> NilDef, keys |-> <<key>>]

\* The loop "for _, alt := range searchPath" from its k-th entry on:
\* found, def, and the keys it indexed funDefs with.
RECURSIVE searchLoop(_, _, _, _)
searchLoop(path, smallName, defs, k) ==
    IF k > Len(path)
    THEN [found |-> FALSE, def |-> NilDef, keys |-> <<>>]
    ELSE LET key == path[k] \o Dot \o smallName IN
         IF key \in DOMAIN defs
         THEN [found |-> TRUE, def |-> defs[key], keys |-> <<key>>]
         ELSE LET rest == searchLoop(path, smallName, defs, k + 1)
              IN  [rest EXCEPT !.keys = <<key>> \o @]

\* lines 186-211: the lookups after the fast path missed
slowPath(n, f, path, defs) ==
    LET pfx == ToLower(prefix(f))
        smallName == ToLower(function(f))
        full == fullName(pfx, smallName)
    IN  IF full \in DOMAIN defs
        THEN [def |-> defs[full], err |-> NoErr, keys |-> <<full>>]
        ELSE IF searchesPath(pfx)
             THEN LET s == searchLoop(path, smallName, defs, 1) IN
                  IF s.found
                  THEN [def |-> s.def, err |-> NoErr, keys |-> <<full>> \o s.keys]
                  ELSE [def |-> NilDef, err |-> UnknownFunctionError(n),
                        keys |-> <<full>> \o s.keys]
             ELSE [def |-> NilDef, err |-> UnknownFunctionError(n),
                   keys |-> <<full>>]

\* ResolveFunction going on after a failed normalization
ResolveFunctionIgnoreErr(n, path, defs) ==
    LET r == normalizeFunctionName(n)
        nm == [called |-> TRUE, fn |-> r.fn, err |-> r.err]
    IN  IF hasSelector(r.fn)
        THEN [def |-> NilDef, err |-> InvalidNameError(n), norm |-> nm, keys |-> <<>>]
        ELSE IF fastPath(r.fn, defs)
        THEN [def |-> defs[function(r.fn)], err |-> NoErr, norm |-> nm,
              keys |-> <<function(r.fn)>>]
        ELSE LET s == slowPath(n, r.fn, path, defs)
             IN  [def |-> s.def, err |-> s.err, norm |-> nm,
                  keys |-> <<function(r.fn)>> \o s.keys]

\* The result carries, besides the two return values, the normalization
\* result and the sequence of keys funDefs was indexed with.
ResolveFunction(n, path, defs) ==
    LET r == normalizeFunctionName(n)
        nm == [called |-> TRUE, fn |-> r.fn, err |-> r.err]
    IN  IF r.err # NoErr
        THEN [def |-> NilDef, err |-> r.err, norm |-> nm, keys |-> <<>>]
        ELSE IF hasSelector(r.fn)
        THEN [def |-> NilDef, err |-> InvalidNameError(n), norm |-> nm, keys |-> <<>>]
        ELSE IF fastPath(r.fn, defs)
        THEN [def |-> defs[function(r.fn)], err |-> NoErr, norm |-> nm,
              keys |-> <<function(r.fn)>>]
        ELSE LET s == slowPath(n, r.fn, path, defs)
             IN  [def |-> s.def, err |-> s.err, norm |-> nm,
                  keys |-> <<function(r.fn)>> \o s.keys]

----------------------------------------------------------------------------
(* The reference cell *)

NoNorm == [called |-> FALSE, fn |-> ZeroFunctionName, err |-> NoErr]

\* Resolve with the resolved branch looking the definition up again by its
\* lowercased name instead of returning the held pointer
ResolveBodyRelookup(ref, path, defs) ==
    CASE ref.kind = "FunctionDefinition" ->
           LET key == ToLower(ref.def.Name)
               d == IF key \in DOMAIN defs THEN defs[key] ELSE NilDef
           IN  [ref |-> ref, def |-> d, err |-> NoErr, panicked |-> FALSE,
                invoked |-> FALSE, norm |-> NoNorm, keys |-> <<key>>]
      [] ref.kind = "UnresolvedName" ->
           LET r == ResolveFunction(ref.name, path, defs) IN
           IF r.err # NoErr
           THEN [ref |-> ref, def |-> NilDef, err |-> r.err, panicked |-> FALSE,
                 invoked |-> TRUE, norm |-> r.norm, keys |-> r.keys]
           ELSE [ref |-> Resolved(r.def), def |-> r.def, err |-> NoErr,
                 panicked |-> FALSE,
                 invoked |-> TRUE, norm |-> r.norm, keys |-> r.keys]
      [] OTHER ->
           [ref |-> ref, def |-> NilDef, err |-> NoErr, panicked |-> TRUE,
            invoked |-> FALSE, norm |-> NoNorm, keys |-> <<>>]

\* Resolve with "fn.FunctionReference = fd" moved before the error check
ResolveBodyAssignFirst(ref, path, defs) ==
    CASE ref.kind = "FunctionDefinition" ->
           [ref |-> ref, def |-> ref.def, err |-> NoErr, panicked |-> FALSE,
            invoked |-> FALSE, norm |-> NoNorm, keys |-> <<>>]
      [] ref.kind = "UnresolvedName" ->
           LET r == ResolveFunction(ref.name, path, defs) IN
           IF r.err # NoErr
           THEN [ref |-> Resolved(r.def), def |-> NilDef, err |-> r.err,
                 panicked |-> FALSE,
                 invoked |-> TRUE, norm |-> r.norm, keys |-> r.keys]
           ELSE [ref |-> Resolved(r.def), def |-> r.def, err |-> NoErr,
                 panicked |-> FALSE,
                 invoked |-> TRUE, norm |-> r.norm, keys |-> r.keys]
      [] OTHER ->
           [ref |-> ref, def |-> NilDef, err |-> NoErr, panicked |-> TRUE,
            invoked |-> FALSE, norm |-> NoNorm, keys |-> <<>>]

\* Resolve without the assignment "fn.FunctionReference = fd"
ResolveBodyNoStore(ref, path, defs) ==
    CASE ref.kind = "FunctionDefinition" ->
           [ref |-> ref, def |-> ref.def, err |-> NoErr, panicked |-> FALSE,
            invoked |-> FALSE, norm |-> NoNorm, keys |-> <<>>]
      [] ref.kind = "UnresolvedName" ->
           LET r == ResolveFunction(ref.name, path, defs) IN
           [ref |-> ref, def |-> r.def, err |-> r.err, panicked |-> FALSE,
            invoked |-> TRUE, norm |-> r.norm, keys |-> r.keys]
      [] OTHER ->
           [ref |-> ref, def |-> NilDef, err |-> NoErr, panicked |-> TRUE,
            invoked |-> FALSE, norm |-> NoNorm, keys |-> <<>>]

\* Resolve with the resolved branch resolving the held definition's name
\* again through ResolveFunction
ResolveBodyReresolve(ref, path, defs) ==
    CASE ref.kind \in {"FunctionDefinition", "UnresolvedName"} ->
           LET n == IF ref.kind = "UnresolvedName" THEN ref.name
                    ELSE <<NamePart(ref.def.Name)>>
               r == ResolveFunction(n, path, defs)
           IN  IF r.err # NoErr
               THEN [ref |-> ref, def |-> NilDef, err |-> r.err, panicked |-> FALSE,
                     invoked |-> TRUE, norm |-> r.norm, keys |-> r.keys]
               ELSE [ref |-> Resolved(r.def), def |-> r.def, err |-> NoErr,
                     panicked |-> FALSE,
                     invoked |-> TRUE, norm |-> r.norm, keys |-> r.keys]
      [] OTHER ->
           [ref |-> ref, def |-> NilDef, err |-> NoErr, panicked |-> TRUE,
            invoked |-> FALSE, norm |-> NoNorm, keys |-> <<>>]


\* Resolve with a failed resolution clearing the cell to the nil interface
ResolveBodyClearOnFail(ref, path, defs) ==
    CASE ref.kind = "FunctionDefinition" ->
           [ref |-> ref, def |-> ref.def, err |-> NoErr, panicked |-> FALSE,
            invoked |-> FALSE, norm |-> NoNorm, keys |-> <<>>]
      [] ref.kind = "UnresolvedName" ->
           LET r == ResolveFunction(ref.name, path, defs) IN
           IF r.err # NoErr
           THEN [ref |-> NoCell, def |-> NilDef, err |-> r.err, panicked |-> FALSE,
                 invoked |-> TRUE, norm |-> r.norm, keys |-> r.keys]
           ELSE [ref |-> Resolved(r.def), def |-> r.def, err |-> NoErr,
                 panicked |-> FALSE,
                 invoked |-> TRUE, norm |-> r.norm, keys |-> r.keys]
      [] OTHER ->
           [ref |-> ref, def |-> NilDef, err |-> NoErr, panicked |-> TRUE,
            invoked |-> FALSE, norm |-> NoNorm, keys |-> <<>>]

\* The body of (*ResolvableFunctionReference).Resolve on a cell holding ref:
\* the cell afterwards, the return values, and what the call did on the way.
ResolveBody(ref, path, defs) ==
    CASE ref.kind = "FunctionDefinition" ->
           [ref |-> ref, def |-> ref.def, err |-> NoErr, panicked |-> FALSE,
            invoked |-> FALSE, norm |-> NoNorm, keys |-> <<>>]
      [] ref.kind = "UnresolvedName" ->
           LET r == ResolveFunction(ref.name, path, defs) IN
           IF r.err # NoErr
           THEN [ref |-> ref, def |-> NilDef, err |-> r.err, panicked |-> FALSE,
                 invoked |-> TRUE, norm |-> r.norm, keys |-> r.keys]
           ELSE [ref |-> Resolved(r.def), def |-> r.def, err |-> NoErr,
                 panicked |-> FALSE,
                 invoked |-> TRUE, norm |-> r.norm, keys |-> r.keys]
      [] OTHER ->
           [ref |-> ref, def |-> NilDef, err |-> NoErr, panicked |-> TRUE,
            invoked |-> FALSE, norm |-> NoNorm, keys |-> <<>>]

\* wrapFunction building the cell without indexing funDefs
wrapFunctionDirect(n, defs) ==
    [ref |-> Resolved(FunctionDefinition(n)), keys |-> <<>>, panicked |-> FALSE]

\* wrapFunction(n): the cell built, the keys funDefs was indexed with, and
\* whether the call panicked with "function n() not defined"
wrapFunction(n, defs) ==
    IF n \in DOMAIN defs
    THEN [ref |-> Resolved(defs[n]), keys |-> <<n>>, panicked |-> FALSE]
    ELSE [ref |-> NoCell, keys |-> <<n>>, panicked |-> TRUE]

NoWrap == [called |-> FALSE, n |-> <<>>, keys |-> <<>>, panicked |-> FALSE]

----------------------------------------------------------------------------
(* Format *)

\* The unresolved syntax: identifier parts joined by dots, a subscript
\* rendered as brackets.
RECURSIVE UnresolvedNameFormat(_)
UnresolvedNameFormat(n) ==
    IF Len(n) = 0 THEN <<>>
    ELSE LET p == n[Len(n)]
             front == UnresolvedNameFormat(SliceTo(n, Len(n) - 1))
         IN  IF p.kind = "ArraySubscript" THEN front \o <<"[", "]">>
             ELSE IF Len(n) = 1 THEN p.s
             ELSE front \o Dot \o p.s

\* (*FunctionDefinition).Format writing something else than fd.Name
FunctionDefinitionFormatFolded(fd) == ToLower(fd.Name)

\* (*FunctionDefinition).Format: buf.WriteString(fd.Name)
FunctionDefinitionFormat(fd) == fd.Name

\* ResolvableFunctionReference.Format: fn.FunctionReference.Format(buf, f)
Format(ref) ==
    IF ref.kind = "FunctionDefinition"
    THEN FunctionDefinitionFormat(ref.def)
    ELSE UnresolvedNameFormat(ref.name)

----------------------------------------------------------------------------
(* State machine *)

\* the names grammar rules pass to wrapFunction
WrapNames == KeyUniverse

\* what setupBuiltins may leave in funDefs
Registries ==
    { [k \in S |-> FunctionDefinition(k)] : S \in SUBSET KeyUniverse }

Init ==
    /\ funDefs \in Registries
    /\ \/ /\ built = "parsed"
          /\ unresolved \in UnresolvedNames
          /\ fn = Unresolved(unresolved)
          /\ wrap = NoWrap
       \/ /\ built = "wrapped"
          /\ unresolved = <<>>
          /\ \E n \in WrapNames : \E w \in {wrapFunction(n, funDefs)} :
                /\ fn = w.ref
                /\ wrap = [called |-> TRUE, n |-> n, keys |-> w.keys,
                           panicked |-> w.panicked]
    /\ searchPath = <<>>
    /\ ret = [def |-> NilDef, err |-> NoErr, panicked |-> FALSE]
    /\ norm = NoNorm
    /\ lookups = <<>>
    /\ calls = 0
    /\ resolverCalls = 0
    /\ resolverOk = 0
    /\ cells = <<>>
    /\ threads = <<>>

\* Resolve also registering what it found under the name as written
ResolveMemoizing(path) ==
    /\ calls < MaxCalls
    /\ ~ret.panicked
    /\ ~wrap.panicked
    /\ \E r \in {ResolveBody(fn, path, funDefs)} :
       /\ fn' = r.ref
       /\ ret' = [def |-> r.def, err |-> r.err, panicked |-> r.panicked]
       /\ norm' = r.norm
       /\ lookups' = r.keys
       /\ resolverCalls' = resolverCalls + (IF r.invoked THEN 1 ELSE 0)
       /\ resolverOk' = resolverOk + (IF r.invoked /\ r.err = NoErr THEN 1 ELSE 0)
       /\ funDefs' = IF r.invoked /\ r.err = NoErr /\ Len(fn.name) = 1
                     THEN [k \in DOMAIN funDefs \cup {fn.name[1].s} |->
                             IF k = fn.name[1].s THEN r.def ELSE funDefs[k]]
                     ELSE funDefs
    /\ searchPath' = path
    /\ calls' = calls + 1
    /\ UNCHANGED <<built, unresolved, wrap, cells, threads>>

\* one call fn.Resolve(path)
Resolve(path) ==
    /\ calls < MaxCalls
    /\ ~ret.panicked
    /\ ~wrap.panicked
    /\ \E r \in {ResolveBody(fn, path, funDefs)} :
       /\ fn' = r.ref
       /\ ret' = [def |-> r.def, err |-> r.err, panicked |-> r.panicked]
       /\ norm' = r.norm
       /\ lookups' = r.keys
       /\ resolverCalls' = resolverCalls + (IF r.invoked THEN 1 ELSE 0)
       /\ resolverOk' = resolverOk + (IF r.invoked /\ r.err = NoErr THEN 1 ELSE 0)
    /\ searchPath' = path
    /\ calls' = calls + 1
    /\ UNCHANGED <<funDefs, built, unresolved, wrap, cells, threads>>

Next == \E path \in SearchPaths : Resolve(path)

Spec == Init /\ [][Next]_vars

----------------------------------------------------------------------------
(* Concurrent compilations *)

(***************************************************************************)
(* Resolve run by two goroutines without synchronization.  The cell's      *)
(* FunctionReference is an interface value of two words, the dynamic type  *)
(* and the data pointer, each loaded and stored on its own; a goroutine    *)
(* that loads the type of one stored value and the data of another has     *)
(* read a torn value, and what its call does then is undefined.            *)
(***************************************************************************)

Threads == {1, 2}
Cells == {1, 2}

\* the names in the cells of the concurrent compilations
ThreadNames ==
    { <<>>,
      <<NamePart(<<"f">>)>>,
      <<NamePart(<<"F">>)>>,
      <<NamePart(<<"P">>), NamePart(<<"f">>)>>,
      <<NamePart(<<"f">>), ArraySubscript>> }

ThreadPaths == { path \in SearchPaths : Len(path) <= MaxThreadPath }

\* a pointer into memory that holds no FunctionDefinition
GarbageDef == [Name |-> <<"?">>]

NoRet == [def |-> NilDef, err |-> NoErr, panicked |-> FALSE]

\* what a call that switched on a torn interface value may do: hand out a
\* pointer to something that is no definition, or crash
TornOutcomes ==
    { [def |-> GarbageDef, err |-> NoErr, panicked |-> FALSE],
      [def |-> NilDef, err |-> NoErr, panicked |-> TRUE] }

InterfaceValue(ref) == [typ |-> ref.kind, data |-> ref]

InitThreads(cellOf) ==
    /\ funDefs \in Registries
    /\ unresolved \in ThreadNames
    /\ cells = [c \in Cells |-> InterfaceValue(Unresolved(unresolved))]
    /\ \E paths \in [Threads -> ThreadPaths] :
          threads = [t \in Threads |->
                       [pc |-> "call", cell |-> cellOf[t], path |-> paths[t],
                        typ |-> "nil", val |-> NoCell, new |-> NoCell,
                        first |-> "none", torn |-> FALSE, ret |-> NoRet]]
    /\ fn = NoCell
    /\ built = "parsed"
    /\ searchPath = <<>>
    /\ ret = NoRet
    /\ norm = NoNorm
    /\ lookups = <<>>
    /\ calls = 0
    /\ resolverCalls = 0
    /\ resolverOk = 0
    /\ wrap = NoWrap

\* every compilation owns its cell
InitDistinct == InitThreads([t \in Threads |-> t])

\* the compilations share cell 1
InitShared == InitThreads([t \in Threads |-> 1])

sequential == <<fn, built, unresolved, searchPath, ret, norm, lookups,
                calls, resolverCalls, resolverOk, wrap>>

\* "switch t := fn.FunctionReference.(type)": the load of the type word
LoadTyp(t) ==
    /\ threads[t].pc = "call"
    /\ threads' = [threads EXCEPT ![t].pc = "load",
                                  ![t].typ = cells[threads[t].cell].typ]
    /\ UNCHANGED <<funDefs, cells, sequential>>

\* the load of the data word
LoadData(t) ==
    /\ threads[t].pc = "load"
    /\ threads' = [threads EXCEPT ![t].pc = "switch",
                                  ![t].val = cells[threads[t].cell].data]
    /\ UNCHANGED <<funDefs, cells, sequential>>

\* the type switch also registering what it found under the name as written
SwitchMemoizing(t) ==
    LET th == threads[t] IN
    /\ th.pc = "switch"
    /\ th.typ = th.val.kind
    /\ \E r \in {ResolveBody(th.val, th.path, funDefs)} :
          /\ threads' = [threads EXCEPT
                ![t].pc = IF r.ref # th.val THEN "store" ELSE "done",
                ![t].new = r.ref,
                ![t].ret = [def |-> r.def, err |-> r.err, panicked |-> r.panicked]]
          /\ funDefs' = IF r.invoked /\ r.err = NoErr /\ Len(th.val.name) = 1
                        THEN [k \in DOMAIN funDefs \cup {th.val.name[1].s} |->
                                IF k = th.val.name[1].s THEN r.def ELSE funDefs[k]]
                        ELSE funDefs
    /\ UNCHANGED <<cells, sequential>>

\* The type switch and the body of the case taken, up to the assignment to
\* the cell; on a torn value the outcome is one of TornOutcomes.
Switch(t) ==
    LET th == threads[t] IN
    /\ th.pc = "switch"
    /\ IF th.typ # th.val.kind
       THEN \E o \in TornOutcomes :
               threads' = [threads EXCEPT ![t].pc = "done", ![t].torn = TRUE,
                                          ![t].ret = o]
       ELSE \E r \in {ResolveBody(th.val, th.path, funDefs)} :
               threads' = [threads EXCEPT
                  ![t].pc = IF r.ref # th.val THEN "store" ELSE "done",
                  ![t].new = r.ref,
                  ![t].ret = [def |-> r.def, err |-> r.err, panicked |-> r.panicked]]
    /\ UNCHANGED <<funDefs, cells, sequential>>

\* one word of the interface value written
StoreWord(c, w, ref) ==
    IF w = "typ" THEN [cells EXCEPT ![c].typ = ref.kind]
    ELSE [cells EXCEPT ![c].data = ref]

\* "fn.FunctionReference = fd": the store of the first word, either one
StoreFirst(t) ==
    /\ threads[t].pc = "store"
    /\ \E w \in {"typ", "data"} :
          /\ cells' = StoreWord(threads[t].cell, w, threads[t].new)
          /\ threads' = [threads EXCEPT ![t].pc = "store2", ![t].first = w]
    /\ UNCHANGED <<funDefs, sequential>>

\* the store of the other word, and "return fd, nil"
StoreSecond(t) ==
    /\ threads[t].pc = "store2"
    /\ cells' = StoreWord(threads[t].cell,
                          IF threads[t].first = "typ" THEN "data" ELSE "typ",
                          threads[t].new)
    /\ threads' = [threads EXCEPT ![t].pc = "done"]
    /\ UNCHANGED <<funDefs, sequential>>

NextThreads ==
    \E t \in Threads :
        \/ LoadTyp(t)
        \/ LoadData(t)
        \/ Switch(t)
        \/ StoreFirst(t)
        \/ StoreSecond(t)

SpecDistinct == InitDistinct /\ [][NextThreads]_vars

SpecShared == InitShared /\ [][NextThreads]_vars

----------------------------------------------------------------------------
(* The cell: caching *)

\* C1: once the cell is Resolved holding d, every further Resolve call,
\* whatever its search path, leaves the cell holding d and returns d with
\* no error.
C1_ResolvedIsStable ==
    [][fn.kind = "FunctionDefinition"
         => /\ fn' = fn
            /\ ret'.def = fn.def
            /\ ret'.err = NoErr]_vars

\* a parsed cell resolved by an earlier call was resolved again with a
\* search path under which its name resolves differently
C1_Witness ==
    /\ built = "parsed"
    /\ fn.kind = "FunctionDefinition"
    /\ calls > resolverCalls
    /\ ret.def = fn.def
    /\ ResolveFunction(unresolved, searchPath, funDefs).def # fn.def

\* an unqualified one-part name
IsUnqualified(n) == Len(n) = 1 /\ n[1].kind = "Name"

\* some entry of path names a namespace that registers the lowercased name
PathDefines(n, path, defs) ==
    \E i \in 1..Len(path) : (path[i] \o Dot \o ToLower(n[1].s)) \in DOMAIN defs

\* C2: a Resolve call on an Unresolved cell that fails returns the error
\* and no definition and leaves the cell holding the same UnresolvedName;
\* the failure is not cached: the next Resolve whose search path contains a
\* namespace defining the function succeeds.
C2_FailureNotCached ==
    [][/\ (fn.kind = "UnresolvedName" /\ ret'.err # NoErr)
            => /\ ret'.def = NilDef
               /\ fn' = fn
               /\ fn' = Unresolved(unresolved)
       /\ (/\ calls > 0
           /\ ret.err # NoErr
           /\ IsUnqualified(unresolved)
           /\ PathDefines(unresolved, searchPath', funDefs))
            => /\ ret'.err = NoErr
               /\ ret'.def # NilDef
               /\ fn' = Resolved(ret'.def)]_vars

\* a failed call was followed by a successful one with another search path
C2_Witness ==
    /\ resolverCalls = 2
    /\ resolverOk = 1
    /\ calls = 2
    /\ ret.err = NoErr
    /\ fn.kind = "FunctionDefinition"
    /\ IsUnqualified(unresolved)
    /\ PathDefines(unresolved, searchPath, funDefs)

\* C3: the cell changes only from Unresolved to Resolved, exactly on a
\* successful Resolve; the definition stored is the one the call returned,
\* which is what ResolveFunction yields for the cell's name and the call's
\* search path; a Resolved cell never becomes Unresolved again.
C3_MonotoneTransition ==
    [][/\ fn' # fn
            => /\ fn.kind = "UnresolvedName"
               /\ fn' = Resolved(ret'.def)
               /\ ret'.err = NoErr
               /\ ret'.def = ResolveFunction(fn.name, searchPath', funDefs).def
               /\ ret'.def # NilDef
       /\ (fn.kind = "UnresolvedName" /\ ret'.err = NoErr) => fn' # fn
       /\ fn.kind = "FunctionDefinition" => fn'.kind = "FunctionDefinition"]_vars

\* the cell was resolved through a search-path namespace by its second call
C3_Witness ==
    /\ built = "parsed"
    /\ fn.kind = "FunctionDefinition"
    /\ calls = 2
    /\ resolverCalls = 2
    /\ Len(searchPath) = 2
    /\ fn.def = ret.def
    /\ fn.def.Name = searchPath[2] \o Dot \o <<"f">>

----------------------------------------------------------------------------
(* ResolveFunction: the lookups *)

\* the latest Resolve call ran ResolveFunction on the name the parser left
\* in the cell
Invoked == calls > 0 /\ norm.called

\* a qualified two-part name
IsQualified(n) == Len(n) = 2 /\ n[1].kind = "Name" /\ n[2].kind = "Name"

\* the key a search-path entry yields for an unqualified name
PathKey(n, path, i) == path[i] \o Dot \o ToLower(n[1].s)

\* the indices of the search-path entries whose key is registered
PathHits(n, path, defs) ==
    { i \in 1..Len(path) : PathKey(n, path, i) \in DOMAIN defs }

\* C5: for an unqualified name with no direct unqualified registry entry,
\* the search-path entries are tried in order and the definition returned
\* is the one registered under entry + "." + lowercased name for the
\* smallest index whose key is registered.
C5_FirstPathEntryWins ==
    (/\ Invoked
     /\ IsUnqualified(unresolved)
     /\ unresolved[1].s \notin DOMAIN funDefs
     /\ ToLower(unresolved[1].s) \notin DOMAIN funDefs
     /\ PathHits(unresolved, searchPath, funDefs) # {})
    => LET m == Min(PathHits(unresolved, searchPath, funDefs)) IN
       /\ ret.err = NoErr
       /\ ret.def = funDefs[PathKey(unresolved, searchPath, m)]
       /\ lookups = <<unresolved[1].s, ToLower(unresolved[1].s)>>
                    \o [i \in 1..m |-> PathKey(unresolved, searchPath, i)]

\* two namespaces of the search path define the name under different
\* definitions, and the call has returned
C5_Witness ==
    /\ Invoked
    /\ IsUnqualified(unresolved)
    /\ unresolved[1].s \notin DOMAIN funDefs
    /\ ToLower(unresolved[1].s) \notin DOMAIN funDefs
    /\ Cardinality(PathHits(unresolved, searchPath, funDefs)) = 2
    /\ searchPath[1] # searchPath[2]
    /\ ret.def = funDefs[PathKey(unresolved, searchPath, 1)]

\* the key of a qualified name
QualifiedKey(n) == ToLower(n[1].s) \o Dot \o ToLower(n[2].s)

\* C6: for a qualified name the outcome does not depend on the search
\* path: the definition registered under lower(prefix) + "." + lower(name)
\* if there is one, the unknown-function error otherwise, and no
\* search-path key is looked up.
C6_QualifiedIgnoresPath ==
    (Invoked /\ IsQualified(unresolved))
    => /\ lookups = <<unresolved[2].s, QualifiedKey(unresolved)>>
       /\ IF QualifiedKey(unresolved) \in DOMAIN funDefs
          THEN /\ ret.err = NoErr
               /\ ret.def = funDefs[QualifiedKey(unresolved)]
          ELSE /\ ret.err = UnknownFunctionError(unresolved)
               /\ ret.def = NilDef

\* a qualified name failed although a namespace of the search path
\* registers a function of that name
C6_Witness ==
    /\ Invoked
    /\ IsQualified(unresolved)
    /\ QualifiedKey(unresolved) \notin DOMAIN funDefs
    /\ \E i \in 1..Len(searchPath) :
          (searchPath[i] \o Dot \o ToLower(unresolved[2].s)) \in DOMAIN funDefs
    /\ ret.err = UnknownFunctionError(unresolved)

\* C7: an unqualified name that is, exactly as written, a registry key
\* resolves to that entry for every search path, and no other key is
\* looked up.
C7_FastPath ==
    (/\ Invoked
     /\ IsUnqualified(unresolved)
     /\ unresolved[1].s \in DOMAIN funDefs)
    => /\ ret.err = NoErr
       /\ ret.def = funDefs[unresolved[1].s]
       /\ lookups = <<unresolved[1].s>>

\* an exact-case hit returned while the lowercased name and a namespace of
\* the search path are registered too
C7_Witness ==
    /\ Invoked
    /\ IsUnqualified(unresolved)
    /\ unresolved[1].s \in DOMAIN funDefs
    /\ ToLower(unresolved[1].s) \in DOMAIN funDefs
    /\ ToLower(unresolved[1].s) # unresolved[1].s
    /\ PathHits(unresolved, searchPath, funDefs) # {}
    /\ ret.def = funDefs[unresolved[1].s]

\* the keys ResolveFunction may match a well-formed name against
Candidates(n, path) ==
    IF IsUnqualified(n)
    THEN {n[1].s, ToLower(n[1].s)} \cup { PathKey(n, path, i) : i \in 1..Len(path) }
    ELSE {QualifiedKey(n)}

\* C8: for a well-formed name with empty selector, ResolveFunction fails
\* with the unknown-function error if and only if no candidate key is
\* registered, and otherwise returns the registry entry of a candidate.
C8_UnknownIffNoCandidate ==
    (Invoked /\ (IsUnqualified(unresolved) \/ IsQualified(unresolved)))
    => LET hits == Candidates(unresolved, searchPath) \cap DOMAIN funDefs IN
       IF hits = {}
       THEN ret.err = UnknownFunctionError(unresolved) /\ ret.def = NilDef
       ELSE /\ ret.err = NoErr
            /\ ret.def \in { funDefs[k] : k \in hits }

\* an unqualified name was found only through the last of two search-path
\* entries
C8_Witness ==
    /\ Invoked
    /\ IsUnqualified(unresolved)
    /\ Len(searchPath) = 2
    /\ Candidates(unresolved, searchPath) \cap DOMAIN funDefs
         = {PathKey(unresolved, searchPath, 2)}
    /\ PathKey(unresolved, searchPath, 1) # PathKey(unresolved, searchPath, 2)
    /\ ret.err = NoErr

----------------------------------------------------------------------------
(* Selectors and normalization *)

\* a name with an array subscript after its first part
HasSelectorPart(n) ==
    /\ Len(n) >= 2
    /\ n[1].kind = "Name"
    /\ \E j \in 2..Len(n) : n[j].kind = "ArraySubscript"

\* C9 as stated: a name with a non-empty selector fails with an error that
\* is neither the invalid-name error nor the unknown-function error.
C9_DistinctErrorKind ==
    (Invoked /\ HasSelectorPart(unresolved))
    => /\ ret.err # NoErr
       /\ ret.err # InvalidNameError(unresolved)
       /\ ret.err # UnknownFunctionError(unresolved)

\* C9: a name with a non-empty selector fails, whatever the registry and
\* the search path hold, with the error "invalid function name: <name>",
\* the very error of a malformed name; no definition is returned and no
\* registry key is looked up.
C9_SelectorRejected ==
    (Invoked /\ HasSelectorPart(unresolved))
    => /\ ret.err = InvalidNameError(unresolved)
       /\ ret.err # UnknownFunctionError(unresolved)
       /\ ret.def = NilDef
       /\ lookups = <<>>
       /\ fn = Unresolved(unresolved)

\* a registered name followed by a subscript was rejected after it
\* normalized without error
C9_Witness ==
    /\ Invoked
    /\ Len(unresolved) = 2
    /\ unresolved[1].kind = "Name"
    /\ unresolved[1].s \in DOMAIN funDefs
    /\ unresolved[2] = ArraySubscript
    /\ norm.err = NoErr
    /\ norm.fn.selector = <<ArraySubscript>>
    /\ ret.err = InvalidNameError(unresolved)

\* a non-empty sequence of plain identifiers
AllPlain(n) == Len(n) > 0 /\ \A j \in 1..Len(n) : n[j].kind = "Name"

\* C10 as stated: every non-empty sequence of plain identifiers, of any
\* length, normalizes without error to an empty selector.
C10_AnyLengthNormalizes ==
    (Invoked /\ AllPlain(unresolved))
    => /\ norm.err = NoErr
       /\ norm.fn.selector = <<>>

\* C10: every sequence of one or two plain identifiers normalizes without
\* error to an empty selector, with the last part as function name and the
\* first of two as prefix; a longer one is an invalid function name.
C10_OneOrTwoPartsNormalize ==
    (Invoked /\ AllPlain(unresolved))
    => IF Len(unresolved) <= 2
       THEN /\ norm.err = NoErr
            /\ norm.fn.selector = <<>>
            /\ norm.fn.functionName = unresolved[Len(unresolved)].s
            /\ norm.fn.prefixName =
                 (IF Len(unresolved) = 2 THEN unresolved[1].s ELSE <<>>)
       ELSE /\ norm.err = InvalidNameError(unresolved)
            /\ ret.err = InvalidNameError(unresolved)

\* a two-part name was normalized into prefix and function name
C10_Witness ==
    /\ Invoked
    /\ AllPlain(unresolved)
    /\ Len(unresolved) = 2
    /\ norm.err = NoErr
    /\ norm.fn.prefixName # <<>>
    /\ norm.fn.selector = <<>>

\* C11: normalizeFunctionName fails with the invalid-name error on the
\* empty name and on a name whose first part is an array subscript, and
\* ResolveFunction returns that error for every search path without
\* indexing funDefs.
C11_InvalidNamePropagates ==
    (/\ Invoked
     /\ (Len(unresolved) = 0 \/ unresolved[1].kind = "ArraySubscript"))
    => /\ norm.err = InvalidNameError(unresolved)
       /\ ret.err = InvalidNameError(unresolved)
       /\ ret.def = NilDef
       /\ lookups = <<>>
       /\ fn = Unresolved(unresolved)

\* a name starting with a subscript was rejected under a non-empty search
\* path and a non-empty registry
C11_Witness ==
    /\ Invoked
    /\ Len(unresolved) = 2
    /\ unresolved[1] = ArraySubscript
    /\ unresolved[2].kind = "Name"
    /\ unresolved[2].s \in DOMAIN funDefs
    /\ searchPath # <<>>
    /\ ret.err = InvalidNameError(unresolved)

----------------------------------------------------------------------------
(* Case folding and the fast path *)

FoldString(str) == [i \in 1..Len(str) |-> ToLowerChar(str[i])]

\* the name with the letters of its identifier parts lowercased
FoldName(n) ==
    [j \in 1..Len(n) |->
        IF n[j].kind = "Name" THEN NamePart(FoldString(n[j].s)) ELSE n[j]]

AllLowerKeys(defs) == \A k \in DOMAIN defs : k = FoldString(k)

\* C12: with a registry whose keys are all lowercase, a name resolves to
\* the outcome (definition or error message kind) of its lowercased
\* spelling under the same search path, so names differing only in letter
\* case resolve alike; search-path entries are used as given: an entry
\* that matches only after folding does not make the name resolve.
C12_CaseInsensitive ==
    /\ (Invoked /\ AllLowerKeys(funDefs))
         => LET r == ResolveFunction(FoldName(unresolved), searchPath, funDefs)
            IN  /\ ret.def = r.def
                /\ ret.err.msg = r.err.msg
    /\ (/\ Invoked
        /\ IsUnqualified(unresolved)
        /\ {unresolved[1].s, ToLower(unresolved[1].s)} \cap DOMAIN funDefs = {}
        /\ PathHits(unresolved, searchPath, funDefs) = {})
         => ret.err = UnknownFunctionError(unresolved)

\* a qualified name written in capitals resolved to the lowercase entry
C12_Witness ==
    /\ Invoked
    /\ AllLowerKeys(funDefs)
    /\ IsQualified(unresolved)
    /\ unresolved[1].s # FoldString(unresolved[1].s)
    /\ unresolved[2].s # FoldString(unresolved[2].s)
    /\ ret.err = NoErr
    /\ ret.def = funDefs[FoldString(unresolved[1].s) \o Dot \o FoldString(unresolved[2].s)]

\* ResolveFunction with the fast-path step taken out
ResolveFunctionNoFastPath(n, path, defs) ==
    LET r == normalizeFunctionName(n) IN
    IF r.err # NoErr
    THEN [def |-> NilDef, err |-> r.err]
    ELSE IF Len(r.fn.selector) > 0
    THEN [def |-> NilDef, err |-> InvalidNameError(n)]
    ELSE LET s == slowPath(n, r.fn, path, defs)
         IN  [def |-> s.def, err |-> s.err]

\* C20: with a registry whose keys are all lowercase, ResolveFunction
\* returns for every name and search path what the same algorithm without
\* the fast-path step returns.
C20_FastPathIsOptimization ==
    (Invoked /\ AllLowerKeys(funDefs))
    => LET r == ResolveFunctionNoFastPath(unresolved, searchPath, funDefs)
       IN  /\ ret.def = r.def
           /\ ret.err = r.err

\* the fast path returned under a lowercase registry in which a namespace
\* of the search path defines the name too
C20_Witness ==
    /\ Invoked
    /\ AllLowerKeys(funDefs)
    /\ IsUnqualified(unresolved)
    /\ lookups = <<unresolved[1].s>>
    /\ PathHits(unresolved, searchPath, funDefs) # {}
    /\ ret.def = funDefs[unresolved[1].s]

----------------------------------------------------------------------------
(* wrapFunction and the variants of the cell *)

\* C13: a cell built by wrapFunction is Resolved from construction on, and
\* every Resolve call on it returns the definition it was built with, for
\* every search path, without indexing funDefs and without normalizing.
C13_WrappedCellResolves ==
    /\ []((wrap.called /\ ~wrap.panicked)
            => /\ fn = Resolved(funDefs[wrap.n])
               /\ resolverCalls = 0
               /\ calls > 0 => /\ ret.def = funDefs[wrap.n]
                               /\ ret.err = NoErr
                               /\ lookups = <<>>
                               /\ ~norm.called)
    /\ [][(wrap.called /\ ~wrap.panicked)
            => /\ fn' = fn
               /\ ret'.def = fn.def]_vars

\* a wrapped cell was resolved twice, last with a non-empty search path
C13_Witness ==
    /\ wrap.called
    /\ ~wrap.panicked
    /\ calls = 2
    /\ searchPath # <<>>
    /\ ret.def = funDefs[wrap.n]

\* C15 as stated: wrapFunction performs no registry lookup and succeeds
\* whatever the registry holds.
C15_NoRegistryLookup ==
    wrap.called => (wrap.keys = <<>> /\ ~wrap.panicked)

\* C15: wrapFunction builds the cell directly in the Resolved state,
\* without normalization and without a search path, from the definition
\* it finds by indexing funDefs once with the name it is given; it
\* panics, building no cell, when funDefs has no such key.
C15_WrapLooksUpOnce ==
    wrap.called
    => /\ wrap.keys = <<wrap.n>>
       /\ ~norm.called
       /\ resolverCalls = 0
       /\ wrap.panicked <=> wrap.n \notin DOMAIN funDefs
       /\ IF wrap.n \in DOMAIN funDefs
          THEN fn = Resolved(funDefs[wrap.n])
          ELSE fn = NoCell /\ calls = 0

\* a cell was built by wrapFunction from a registered name
C15_Witness ==
    /\ wrap.called
    /\ calls = 0
    /\ wrap.n \in DOMAIN funDefs
    /\ fn = Resolved(funDefs[wrap.n])
    /\ wrap.keys = <<wrap.n>>

\* C16: a cell built by the parser or by wrapFunction holds, after any
\* sequence of Resolve calls, an UnresolvedName or a registered
\* *FunctionDefinition, and no Resolve call reaches the panic of the
\* default branch.
C16_TwoVariants ==
    ~wrap.panicked
    => /\ \/ fn.kind = "UnresolvedName" /\ fn = Unresolved(unresolved)
          \/ /\ fn.kind = "FunctionDefinition"
             /\ \E k \in DOMAIN funDefs : fn = Resolved(funDefs[k])
       /\ ~ret.panicked

\* a parsed cell still Unresolved after two failed calls
C16_Witness ==
    /\ built = "parsed"
    /\ calls = 2
    /\ fn.kind = "UnresolvedName"
    /\ ret.err # NoErr
    /\ ~ret.panicked

----------------------------------------------------------------------------
(* Rendering and frame *)

\* C14: the rendering of the cell follows the variant held: the unresolved
\* name until a Resolve call succeeds, the Name of the definition that
\* call returned afterwards; a failed Resolve leaves the rendering as it
\* was.
C14_FormatFollowsVariant ==
    /\ []((built = "parsed" /\ resolverOk = 0)
            => Format(fn) = UnresolvedNameFormat(unresolved))
    /\ []((calls > 0 /\ ret.err = NoErr /\ ~ret.panicked)
            => Format(fn) = ret.def.Name)
    /\ [][ret'.err # NoErr => Format(fn') = Format(fn)]_vars

\* a name written in capitals renders, once resolved, as the lowercase
\* qualified name of its definition
C14_Witness ==
    /\ built = "parsed"
    /\ IsQualified(unresolved)
    /\ resolverOk = 1
    /\ Format(fn) = fn.def.Name
    /\ Format(fn) # UnresolvedNameFormat(unresolved)
    /\ Format(fn) = FoldString(UnresolvedNameFormat(unresolved))

\* C17: no Resolve call writes the registry, the UnresolvedName or how the
\* cell was built; the only thing written is the content of the cell, and
\* only by a call that returns no error.
C17_OnlyTheCellIsWritten ==
    [][/\ funDefs' = funDefs
       /\ unresolved' = unresolved
       /\ built' = built
       /\ wrap' = wrap
       /\ searchPath' \in SearchPaths
       /\ (fn.kind = "UnresolvedName" /\ fn'.kind = "UnresolvedName")
            => fn'.name = fn.name
       /\ fn' # fn => (ret'.err = NoErr /\ fn' = Resolved(ret'.def))]_vars

\* a call that went through the search path has resolved the cell
C17_Witness ==
    /\ calls = 1
    /\ fn.kind = "FunctionDefinition"
    /\ built = "parsed"
    /\ Len(lookups) = 4
    /\ ret.err = NoErr
    /\ funDefs # << >>

----------------------------------------------------------------------------
(* Concurrent compilations: claims *)

\* C18: concurrent Resolve calls on distinct cells sharing the registry do
\* not interfere: no step writes the registry, another goroutine's state
\* or another goroutine's cell, and every finished call has returned what
\* a Resolve call running alone on its cell returns and left its cell as
\* that call leaves it.
C18_DistinctCellsIndependent ==
    /\ [](\A t \in Threads :
            threads[t].pc = "done"
            => \E r \in {ResolveBody(Unresolved(unresolved), threads[t].path, funDefs)} :
                  /\ threads[t].ret.def = r.def
                  /\ threads[t].ret.err = r.err
                  /\ ~threads[t].ret.panicked
                  /\ ~threads[t].torn
                  /\ cells[threads[t].cell] = InterfaceValue(r.ref))
    /\ [][/\ funDefs' = funDefs
          /\ \A t \in Threads :
               threads'[t] # threads[t]
               => /\ \A u \in Threads \ {t} : threads'[u] = threads[u]
                  /\ \A c \in Cells \ {threads[t].cell} : cells'[c] = cells[c]]_vars

\* both compilations finished, each with the definition of its own search
\* path in its own cell
C18_Witness ==
    /\ threads[1].cell # threads[2].cell
    /\ \A t \in Threads : threads[t].pc = "done" /\ threads[t].ret.err = NoErr
    /\ threads[1].ret.def # threads[2].ret.def
    /\ \A t \in Threads : cells[threads[t].cell].data = Resolved(threads[t].ret.def)
    /\ Len(threads[1].path) = 1
    /\ Len(threads[2].path) = 1

\* what ResolveFunction yields for the shared name under a goroutine's path
Own(t) == ResolveFunction(unresolved, threads[t].path, funDefs)

AllDone == \A t \in Threads : threads[t].pc = "done"

\* C19: on a shared cell every call that read an untorn value returns
\* either what ResolveFunction yields for its own search path or the
\* definition another call stored; when all calls are done the cell holds
\* the definition of one of the successful calls, and a call that returned
\* a different definition than the cell then holds resolved it itself
\* under its own search path.
C19_SharedCellOutcomes ==
    /\ \A t \in Threads :
         (threads[t].pc = "done" /\ ~threads[t].torn)
         => /\ ~threads[t].ret.panicked
            /\ IF threads[t].ret.err = NoErr
               THEN \E u \in Threads :
                       Own(u).err = NoErr /\ threads[t].ret.def = Own(u).def
               ELSE threads[t].ret.err = Own(t).err
    /\ AllDone
         => /\ cells[1].typ = cells[1].data.kind
            /\ IF \E u \in Threads : Own(u).err = NoErr
               THEN \E u \in Threads :
                       Own(u).err = NoErr /\ cells[1].data = Resolved(Own(u).def)
               ELSE cells[1].data = Unresolved(unresolved)
            /\ \A t \in Threads :
                 (/\ ~threads[t].torn
                  /\ threads[t].ret.err = NoErr
                  /\ threads[t].ret.def # cells[1].data.def)
                 => threads[t].ret.def = Own(t).def

\* both calls on the shared cell are done, neither read a torn value, and
\* the first has returned a definition the cell does not hold
C19_Witness ==
    /\ threads[1].cell = threads[2].cell
    /\ AllDone
    /\ \A t \in Threads : ~threads[t].torn /\ threads[t].ret.err = NoErr
    /\ threads[1].path # threads[2].path
    /\ threads[1].ret.def # threads[2].ret.def
    /\ cells[1].data = Resolved(threads[2].ret.def)
    /\ threads[1].ret.def # cells[1].data.def

====
